---------------------------- MODULE Spec2Model ----------------------------
(***************************************************************************)
(* A model of weblayer's signed cookie protocol (weblayer/cookie.py) and   *)
(* of the request dispatch / XSRF guard pipeline (weblayer/request.py).    *)
(*                                                                         *)
(* Text (Python 2 `str` used as text: cookie names, cookie values,         *)
(* timestamps, digests) is a sequence of one-character strings.  Binary    *)
(* payloads are sequences of byte values 0..255.  An optional value is a   *)
(* sequence of length 0 (None) or 1.                                       *)
(***************************************************************************)
EXTENDS Integers, Sequences, FiniteSets, TLC

(***************************************************************************)
(* Bounds of the model.                                                    *)
(***************************************************************************)
\* clock ticks per second: time.time() is a float, int() truncates it
TicksPerSecond == 3
\* how many sub-second ticks the clock may advance
MaxTicks == 4
\* calls of one handler instance
MaxCalls == 2
\* the clock's first whole second
StartTime == 5

(***************************************************************************)
(* Program constants.                                                      *)
(***************************************************************************)
\* cookie.py:176, `31 * 86400`
StaleDays == 31
SecondsPerDay == 86400
None == <<>>
Some(x) == <<x>>

(***************************************************************************)
(* Characters.                                                             *)
(***************************************************************************)
B64Alphabet ==
  << "A","B","C","D","E","F","G","H","I","J","K","L","M",
     "N","O","P","Q","R","S","T","U","V","W","X","Y","Z",
     "a","b","c","d","e","f","g","h","i","j","k","l","m",
     "n","o","p","q","r","s","t","u","v","w","x","y","z",
     "0","1","2","3","4","5","6","7","8","9","+","/" >>

B64Chars == { B64Alphabet[i] : i \in 1..64 }

IsB64Char(c) == c \in B64Chars

\* the 6-bit value of each base64 character
B64Values == [c \in B64Chars |-> (CHOOSE i \in 1..64 : B64Alphabet[i] = c) - 1]

B64Value(c) == B64Values[c]

HexDigits == << "0","1","2","3","4","5","6","7","8","9","a","b","c","d","e","f" >>

Digits == {"0","1","2","3","4","5","6","7","8","9"}

DigitValue(c) == B64Value(c) - 52

\* the character with code 0xE9: '\xe9' in a str, u'\xe9' in a unicode
E9 == "E9"

\* the characters of the model
Chars == B64Chars \cup {"=", "|", "_", "-", ".", E9}

\* the code of a character of the model's alphabet
AsciiCode(c) ==
  IF IsB64Char(c)
    THEN LET v == B64Value(c)
         IN  IF v < 26 THEN 65 + v
             ELSE IF v < 52 THEN 97 + (v - 26)
             ELSE IF v < 62 THEN 48 + (v - 52)
             ELSE IF v = 62 THEN 43 ELSE 47
    ELSE CASE c = "=" -> 61
           [] c = "|" -> 124
           [] c = "_" -> 95
           [] c = "-" -> 45
           [] c = "." -> 46
           [] c = E9 -> 233
           [] OTHER -> 63

Ords == [c \in Chars |-> AsciiCode(c)]

\* ord()
Ord(c) == Ords[c]

(***************************************************************************)
(* Bit operations on naturals.                                             *)
(***************************************************************************)
\* the weights of the bits of a character code (ord() is below 256 here)
BitWeights == <<1, 2, 4, 8, 16, 32, 64, 128>>

\* bit k of a, counted from 1
Bit(a, k) == (a \div BitWeights[k]) % 2

\* the bits set in x ^ y
XorBits(x, y) == { k \in 1..8 : Bit(x, k) # Bit(y, k) }

(***************************************************************************)
(* Text helpers.                                                           *)
(***************************************************************************)
RECURSIVE Concat(_)
\* the concatenation of a sequence of texts
Concat(parts) ==
  IF Len(parts) = 0 THEN <<>> ELSE Head(parts) \o Concat(Tail(parts))

\* the positions of the delimiter in s
Delimiters(s) == { i \in 1..Len(s) : s[i] = "|" }

\* the position of the k-th delimiter; the ends of s for k = 0 and past the last
Cut(s, k) ==
  IF k = 0 THEN 0
  ELSE IF k > Cardinality(Delimiters(s)) THEN Len(s) + 1
  ELSE CHOOSE p \in Delimiters(s) :
         Cardinality({ q \in Delimiters(s) : q < p }) = k - 1

\* value.split("|"): the texts between consecutive delimiters
Split(s) ==
  [ k \in 1..(Cardinality(Delimiters(s)) + 1) |->
      SubSeq(s, Cut(s, k - 1) + 1, Cut(s, k) - 1) ]

\* "|".join([a, b, c])
Join3(a, b, c) == a \o <<"|">> \o b \o <<"|">> \o c

RECURSIVE DecimalOf(_)
\* str(n) for a natural n
DecimalOf(n) ==
  IF n < 10 THEN <<HexDigits[n + 1]>>
  ELSE Append(DecimalOf(n \div 10), HexDigits[(n % 10) + 1])

RECURSIVE StripZeros(_)
StripZeros(s) ==
  IF Len(s) > 1 /\ s[1] = "0" THEN StripZeros(Tail(s)) ELSE s

RECURSIVE DigitsValue(_)
DigitsValue(s) ==
  IF Len(s) = 0 THEN 0
  ELSE 10 * DigitsValue(SubSeq(s, 1, Len(s) - 1)) + DigitValue(s[Len(s)])

(***************************************************************************)
(* int(text): an optional sign followed by one or more decimal digits,     *)
(* anything else is a ValueError.  Python's int is unbounded: a value of   *)
(* more than nine digits is kept as "huge" (beyond every clock value).     *)
(***************************************************************************)
IntParse(s) ==
  LET signed == Len(s) > 0 /\ s[1] \in {"-", "+"}
      body   == IF signed THEN Tail(s) ELSE s
      ok     == Len(body) > 0 /\ \A i \in 1..Len(body) : body[i] \in Digits
      digs   == IF ok THEN StripZeros(body) ELSE <<"0">>
      huge   == Len(digs) > 9
      mag    == IF huge THEN 0 ELSE DigitsValue(digs)
      neg    == signed /\ s[1] = "-"
  IN  [ok |-> ok, huge |-> huge, val |-> IF neg THEN 0 - mag ELSE mag, neg |-> neg]

\* n < bound, for a parsed int n and a model integer bound
IntLess(n, bound) ==
  IF n.huge THEN n.neg ELSE n.val < bound

(***************************************************************************)
(* base64.b64encode / base64.b64decode (Python 2).                         *)
(***************************************************************************)
B64Char(v) == B64Alphabet[v + 1]

RECURSIVE b64encode(_)
\* three bytes become four characters; a tail of one or two bytes is padded
b64encode(s) ==
  IF Len(s) = 0 THEN <<>>
  ELSE IF Len(s) = 1
    THEN << B64Char(s[1] \div 4), B64Char((s[1] % 4) * 16), "=", "=" >>
  ELSE IF Len(s) = 2
    THEN << B64Char(s[1] \div 4),
            B64Char((s[1] % 4) * 16 + (s[2] \div 16)),
            B64Char((s[2] % 16) * 4), "=" >>
  ELSE << B64Char(s[1] \div 4),
          B64Char((s[1] % 4) * 16 + (s[2] \div 16)),
          B64Char((s[2] % 16) * 4 + (s[3] \div 64)),
          B64Char(s[3] % 64) >> \o b64encode(SubSeq(s, 4, Len(s)))

Pow2(n) == CASE n = 0 -> 1 [] n = 2 -> 4 [] n = 4 -> 16 [] n = 6 -> 64 [] OTHER -> 1

\* the next character after position i that binascii takes as valid ("=" included)
NextValidIsPad(s, i) ==
  LET later == { j \in (i + 1)..Len(s) : IsB64Char(s[j]) \/ s[j] = "=" }
  IN  later # {} /\ s[CHOOSE j \in later : \A k \in later : j <= k] = "="

\* the decoder's state: position, quad_pos, leftbits, leftchar, output
A2bState(i, quad, leftbits, leftchar, out) ==
  [i |-> i, quad |-> quad, leftbits |-> leftbits, leftchar |-> leftchar, out |-> out]

\* one alphabet character shifted in; a byte comes out once 8 bits are held
A2bShift(st, v) ==
  IF st.leftbits + 6 >= 8
    THEN A2bState(st.i + 1, (st.quad + 1) % 4, st.leftbits - 2,
                  (st.leftchar * 64 + v) % Pow2(st.leftbits - 2),
                  Append(st.out, ((st.leftchar * 64 + v) \div Pow2(st.leftbits - 2)) % 256))
    ELSE A2bState(st.i + 1, (st.quad + 1) % 4, st.leftbits + 6,
                  st.leftchar * 64 + v, st.out)

RECURSIVE A2bBase64(_, _)
\* binascii.a2b_base64: characters outside the alphabet are skipped, a pad
\* in pad position ends the input, left-over bits are an "Incorrect padding"
\* error.
A2bBase64(s, st) ==
  IF st.i > Len(s)
    THEN [ok |-> st.leftbits = 0, bytes |-> st.out]
  ELSE IF s[st.i] = "="
    THEN IF st.quad < 2 \/ (st.quad = 2 /\ ~NextValidIsPad(s, st.i))
           THEN A2bBase64(s, [st EXCEPT !.i = @ + 1])
           ELSE [ok |-> TRUE, bytes |-> st.out]
  ELSE IF ~IsB64Char(s[st.i])
    THEN A2bBase64(s, [st EXCEPT !.i = @ + 1])
  ELSE A2bBase64(s, A2bShift(st, B64Value(s[st.i])))

\* base64.b64decode: ok = FALSE stands for the TypeError it raises
b64decode(s) == A2bBase64(s, A2bState(1, 0, 0, 0, <<>>))

(***************************************************************************)
(* utils.encode_to_utf8 on text of the model's (ASCII) alphabet, and the   *)
(* keyed hash.  HMAC-SHA1 is an ideal keyed function here: its hex digest  *)
(* is an injective rendering of the key and of the bytes fed to update(),  *)
(* in order.  Only the concatenation of the parts reaches the hasher.      *)
(***************************************************************************)
encode_to_utf8(s) == [i \in 1..Len(s) |-> Ord(s[i])]

Hex2(n) == << HexDigits[(n \div 16) + 1], HexDigits[(n % 16) + 1] >>

\* two hex digits per byte, in order
HexOfBytes(bs) ==
  [ i \in 1..(2 * Len(bs)) |-> Hex2(bs[(i + 1) \div 2])[2 - (i % 2)] ]

\* hmac.new(key, digestmod=sha1); update(msg); hexdigest()
HmacHexDigest(key, msg) ==
  Hex2(Len(key)) \o HexOfBytes(encode_to_utf8(key)) \o HexOfBytes(msg)

RECURSIVE HasherUpdates(_)
\* for part in parts: hasher.update(part)
HasherUpdates(parts) ==
  IF Len(parts) = 0 THEN <<>>
  ELSE encode_to_utf8(Head(parts)) \o HasherUpdates(Tail(parts))

\* the first part, the cookie name, left out of the digest
_generate_cookie_signature_skip_name(cookie_secret, parts) ==
  HmacHexDigest(cookie_secret, HasherUpdates(Tail(parts)))

_generate_cookie_signature(cookie_secret, parts) ==
  HmacHexDigest(cookie_secret, HasherUpdates(parts))

(***************************************************************************)
(* _time_independent_equals on two texts.  The integer `result` is held as *)
(* the set of its bits that are 1, so that `|=` is set union.              *)
(***************************************************************************)
\* result = 0; for x, y in zip(a, b): result |= ord(x) ^ ord(y)
FoldXor(a, b) ==
  UNION { XorBits(Ord(a[i]), Ord(b[i])) :
            i \in 1..(IF Len(a) < Len(b) THEN Len(a) ELSE Len(b)) }

\* `result = ord(x) ^ ord(y)` in place of `result |= ...`: the last pair decides
_time_independent_equals_assign(a, b) ==
  IF Len(a) # Len(b) THEN FALSE
  ELSE Len(a) = 0 \/ XorBits(Ord(a[Len(a)]), Ord(b[Len(b)])) = {}

\* len(a) != len(b) -> False; else the fold; return result == 0
_time_independent_equals(a, b) ==
  IF Len(a) # Len(b) THEN FALSE ELSE FoldXor(a, b) = {}

(***************************************************************************)
(* _time_independent_equals step by step, on operands of any type.  An     *)
(* operand is [kind, text]: the characters of a str or unicode, the items  *)
(* of a tuple or list.                                                     *)
(***************************************************************************)
PyValue(kind, text) == [kind |-> kind, text |-> text]

\* isinstance(x, basestring)
IsBasestring(x) == x.kind \in {"str", "unicode"}

\* what `raise ValueError(u'`%s` must be a `basestring`' % x)` raises: the
\* `%` operator takes a tuple as the argument list, and one %s needs one item
MustBeBasestring(x) ==
  IF x.kind = "tuple" /\ Len(x.text) # 1 THEN "TypeError" ELSE "ValueError"

\* a == b on two basestrings: comparing a str with a unicode decodes the str
\* as ASCII, and the two are unequal when that fails
PyEquals(a, b) ==
  /\ a.text = b.text
  /\ a.kind # b.kind => \A i \in 1..Len(a.text) : Ord(a.text[i]) < 128

\* the frame of a running _time_independent_equals(a, b): i pairs of zip(a, b)
\* consumed, `result` as the set of its bits that are 1, the fold steps done
Comparison(a, b, pc, i, result, steps, returned, raised) ==
  [op |-> "equals", a |-> a, b |-> b, pc |-> pc, i |-> i, result |-> result,
   steps |-> steps, returned |-> returned, raised |-> raised]

\* lines 71-78: the type checks and the length check
EqualsEnter(a, b) ==
  IF ~IsBasestring(a)
    THEN Comparison(a, b, "done", 0, {}, 0, FALSE, MustBeBasestring(a))
  ELSE IF ~IsBasestring(b)
    THEN Comparison(a, b, "done", 0, {}, 0, FALSE, MustBeBasestring(b))
  ELSE IF Len(a.text) # Len(b.text)
    THEN Comparison(a, b, "done", 0, {}, 0, FALSE, "")
  ELSE Comparison(a, b, "loop", 0, {}, 0, FALSE, "")

\* the loop leaves as soon as a pair differed
LoopDone_on_difference(f) == f.i = Len(f.a.text) \/ f.result # {}

\* `for x, y in zip(a, b)` is exhausted
LoopDone(f) == f.i = Len(f.a.text)

\* result |= ord(x) ^ ord(y) on the next pair
FoldStep(f) ==
  [f EXCEPT !.i = f.i + 1,
            !.result = f.result \cup XorBits(Ord(f.a.text[f.i + 1]), Ord(f.b.text[f.i + 1])),
            !.steps = f.steps + 1]

\* return result == 0
EqualsExit(f) == [f EXCEPT !.pc = "done", !.returned = (f.result = {})]

(***************************************************************************)
(* Input sets.                                                             *)
(***************************************************************************)
\* settings['cookie_secret'] values; the attacker signs with AttackerKey
Secrets == { <<"k">>, <<"s","2">> }
AttackerKey == <<"x">>

XsrfName == <<"_","x","s","r","f">>
CookieNames == { <<"a">>, <<"b">> }

\* payloads: empty, one byte (padded base64 "QQ=="), three bytes whose
\* base64 is all digits ("1234"), and six bytes ("QUJD1234")
Payloads == { <<>>, <<65>>, <<215,109,248>>, <<65,66,67,215,109,248>> }

\* expires_days arguments: [kind, truthy, n], n being the value of an int, the
\* value of a float in tenths and the length of a str
PyNone == [kind |-> "NoneType", truthy |-> FALSE, n |-> 0]
PyInt(n) == [kind |-> "int", truthy |-> n # 0, n |-> n]
PyFloat(tenths) == [kind |-> "float", truthy |-> tenths # 0, n |-> tenths]
PyStr(len) == [kind |-> "str", truthy |-> len # 0, n |-> len]
ExpiresDaysArgs ==
  { PyNone, PyInt(0), PyInt(30), PyFloat(0), PyFloat(15), PyStr(0), PyStr(2) }

\* path and domain arguments of delete: None when the argument is left out
Paths == { None, Some("/a") }
Domains == { None, Some("example.com") }

(***************************************************************************)
(* State.                                                                  *)
(***************************************************************************)
VARIABLES
  cookie_secret,  \* SignedSecureCookieWrapper._cookie_secret
  ticks,          \* sub-second ticks the clock has advanced
  slept,          \* whether the long sleep has happened
  held,           \* the cookie last written by response.set_cookie (None at first)
  got,            \* the frame of the operation that ran last (None when idle)
  handler,        \* the BaseHandler instance of the request in flight (None at first)
  normaliser,     \* a DefaultToJSONResponseNormaliser used on its own (None at first)
  instances       \* the BaseHandler instances of requests served at the same time

vars == << cookie_secret, ticks, slept, held, got, handler, normaliser, instances >>

StaleSeconds == StaleDays * SecondsPerDay

\* the clock in ticks; time.time() is clock / TicksPerSecond
Clock(t, s) ==
  StartTime * TicksPerSecond + t
    + (IF s THEN (StaleSeconds - 1) * TicksPerSecond ELSE 0)

clock == Clock(ticks, slept)

\* int(time.time())
IntTime(c) == c \div TicksPerSecond

(***************************************************************************)
(* SignedSecureCookieWrapper.set                                           *)
(***************************************************************************)
Cookie(name, value, max_age, path, domain, expires) ==
  [name |-> name, value |-> value, max_age |-> max_age,
   path |-> path, domain |-> domain, expires |-> expires]

\* timestamp and timestamp or str(int(time.time()))
SetTimestamp(timestamp, c) ==
  IF timestamp # None /\ timestamp[1] # <<>> THEN timestamp[1]
  ELSE DecimalOf(IntTime(c))

\* the value written: "|".join([base64, timestamp, signature])
SignedValue(secret, name, value, ts) ==
  LET b64 == b64encode(value)
  IN  Join3(b64, ts, _generate_cookie_signature(secret, <<name, b64, ts>>))

\* max_age = expires_days * 24 * 60
CookieSet_max_age_minutes(secret, c, name, value, timestamp, expires_days) ==
  LET ts == SetTimestamp(timestamp, c)
      v  == SignedValue(secret, name, value, ts)
  IN  IF expires_days.truthy /\ expires_days.kind # "int"
        THEN [raised |-> TRUE, cookie |-> None]
        ELSE [raised |-> FALSE,
              cookie |-> Some(Cookie(name, v,
                           IF expires_days.truthy
                             THEN Some(expires_days.n * 24 * 60) ELSE None,
                           None, None, None))]

\* the result of set(): a TypeError, or the cookie handed to set_cookie
CookieSet(secret, c, name, value, timestamp, expires_days) ==
  LET ts == SetTimestamp(timestamp, c)
      v  == SignedValue(secret, name, value, ts)
  IN  IF expires_days.truthy /\ expires_days.kind # "int"
        THEN [raised |-> TRUE, cookie |-> None]
        ELSE [raised |-> FALSE,
              cookie |-> Some(Cookie(name, v,
                           IF expires_days.truthy
                             THEN Some(expires_days.n * 24 * 60 * 60) ELSE None,
                           None, None, None))]

(***************************************************************************)
(* SignedSecureCookieWrapper.delete                                        *)
(***************************************************************************)
\* cookie.py:203, `datetime.timedelta(days=-5)`
DeleteExpiresDays == -5

\* the value of a keyword argument that may be left out
Default(arg, default) == IF arg = None THEN default ELSE arg

\* delete leaves max_age alone
CookieDelete_keeps_max_age(name, path, domain) ==
  Cookie(name, <<>>, None, Default(path, Some("/")), domain, Some(DeleteExpiresDays))

\* the cookie delete(name, path="/", domain=None) hands to set_cookie; expires
\* is the timedelta, in days from now
CookieDelete(name, path, domain) ==
  Cookie(name, <<>>, Some(0), Default(path, Some("/")), domain, Some(DeleteExpiresDays))

(***************************************************************************)
(* SignedSecureCookieWrapper.get                                           *)
(***************************************************************************)
\* `<=` in place of `<`: a token exactly 31 days old is stale
Expired_inclusive(n, c) ==
  IntLess(n, (c \div TicksPerSecond) + 1 - StaleSeconds)

\* a window of 32 days in place of 31
Expired_32_days(n, c) ==
  IntLess(n, ((c - 1) \div TicksPerSecond) + 1 - (StaleSeconds + SecondsPerDay))

\* timestamp < time.time() - 31 * 86400, with time.time() = c / TicksPerSecond:
\* n < c/T - S  iff  n < ((c - 1) \div T) + 1 - S
Expired(n, c) ==
  IntLess(n, ((c - 1) \div TicksPerSecond) + 1 - StaleSeconds)

ResNone == [kind |-> "none", value |-> <<>>, exc |-> ""]
ResValue(v) == [kind |-> "value", value |-> v, exc |-> ""]
ResRaise(e) == [kind |-> "raise", value |-> <<>>, exc |-> e]

\* the signature check of get(): parts[2] against the recomputed signature
SignatureMatches(secret, name, parts) ==
  _time_independent_equals(
    parts[3], _generate_cookie_signature(secret, <<name, parts[1], parts[2]>>))

\* get(name, value) on a request whose cookie `name` is request_cookie
CookieGet(secret, c, name, value, request_cookie) ==
  LET v == IF value = None THEN request_cookie ELSE value
  IN  IF v = None THEN ResNone
      ELSE LET parts == Split(v[1])
           IN  IF Len(parts) # 3 THEN ResNone
               ELSE LET timestamp == IntParse(parts[2])
                    IN  IF ~timestamp.ok THEN ResRaise("ValueError")
                        ELSE IF Expired(timestamp, c) THEN ResNone
                        ELSE IF ~SignatureMatches(secret, name, parts) THEN ResNone
                        ELSE LET decoded == b64decode(parts[1])
                             IN  IF decoded.ok THEN ResValue(decoded.bytes)
                                 ELSE ResNone

(***************************************************************************)
(* What a client can present as a cookie value: nothing, the value it was  *)
(* issued, values derived from it without the secret, and junk.            *)
(***************************************************************************)
\* the delimiter moved: the same characters, split elsewhere
Resplits(v) ==
  LET parts == Split(v)
      body  == parts[1] \o parts[2]
  IN  { Join3(SubSeq(body, 1, k), SubSeq(body, k + 1, Len(body)), parts[3]) :
          k \in (0..Len(body)) \ {Len(parts[1])} }

FlipChars == {"0", "f", "|"}

\* one character of the signature segment replaced by a different one
SigFlips(v) ==
  LET parts == Split(v)
      sig   == parts[3]
  IN  { Join3(parts[1], parts[2], [sig EXCEPT ![p[1]] = p[2]]) :
          p \in { q \in (1..Len(sig)) \X FlipChars : sig[q[1]] # q[2] } }

\* the timestamp replaced by the current time, the signature kept
Restamped(v, c) ==
  LET parts == Split(v)
  IN  { Join3(parts[1], DecimalOf(IntTime(c)), parts[3]) } \ {v}

\* a value signed with a key that is not the secret
Forged(name, c) ==
  { SignedValue(AttackerKey, name, <<65>>, DecimalOf(IntTime(c))) }

Junk ==
  { <<>>,
    <<"a">>,
    <<"a","|","b">>,
    <<"a","|","b","|","c">>,
    <<"Q","Q","=","=","|","|","c">>,
    <<"a","|","1","|","c">>,
    <<"a","|","-","1","|","c">>,
    <<"a","|","b","|","c","|","d">> }

\* what an honest client presents: nothing, or the value it holds; a cookie
\* written with max_age 0 is not kept
Honest ==
  {None} \cup (IF held = None \/ held[1].cookie.max_age = Some(0) THEN {}
               ELSE {Some(held[1].cookie.value)})

\* what a client without the secret can make of the value it holds
Tampered(name, c) ==
  { Some(v) : v \in Junk \cup Forged(name, c) }
    \cup (IF held = None THEN {}
          ELSE LET v == held[1].cookie.value
               IN  { Some(w) : w \in Resplits(v) \cup SigFlips(v) \cup Restamped(v, c) })

(***************************************************************************)
(* Frames: what the operation that ran last was given and what it did.     *)
(***************************************************************************)
Frame(op, name, payload, presented, via, res, raised, writes, expires_days) ==
  [op |-> op, name |-> name, payload |-> payload, presented |-> presented,
   via |-> via, res |-> res, raised |-> raised, writes |-> writes,
   expires_days |-> expires_days]

\* the frame of a delete() call: its arguments and the cookie written before it
DeleteFrame(name, path, domain, before) ==
  [op |-> "delete", name |-> name, path |-> path, domain |-> domain,
   before |-> before, raised |-> FALSE, writes |-> 1]

\* the record of a set() call and of the cookie it wrote on the response
Written(cookie, name, value, c, expires_days) ==
  [cookie |-> cookie, name |-> name, payload |-> value,
   timestamp |-> SetTimestamp(None, c), at |-> c, expires_days |-> expires_days]

(***************************************************************************)
(* Actions of the cookie wrapper.                                          *)
(***************************************************************************)
Init ==
  /\ cookie_secret \in Secrets
  /\ ticks = 0
  /\ slept = FALSE
  /\ held = None
  /\ got = None
  /\ handler = None
  /\ normaliser = None
  /\ instances = << None, None >>

\* the clock advances by one tick
Tick ==
  /\ got = None
  /\ ticks < MaxTicks
  /\ ticks' = ticks + 1
  /\ UNCHANGED << cookie_secret, slept, held, got, handler, normaliser, instances >>

\* the clock advances by one second less than the staleness window
Sleep ==
  /\ got = None
  /\ ~slept
  /\ slept' = TRUE
  /\ UNCHANGED << cookie_secret, ticks, held, got, handler, normaliser, instances >>

\* cookies.set(name, value, expires_days=expires_days)
Set(name, value, expires_days) ==
  LET r == CookieSet(cookie_secret, clock, name, value, None, expires_days)
  IN  /\ got = None
      /\ held' = IF r.raised THEN held
                 ELSE Some(Written(r.cookie[1], name, value, clock, expires_days))
      /\ got' = Some(Frame("set", name, value, None, "", ResNone, r.raised,
                           IF r.raised THEN 0 ELSE 1, expires_days))
      /\ UNCHANGED << cookie_secret, ticks, slept, handler, normaliser, instances >>

\* cookies.get(name) on a request carrying `presented`, or cookies.get(name, presented)
Get(name, presented, via) ==
  LET res == CookieGet(cookie_secret, clock, name,
                       IF via = "arg" THEN presented ELSE None,
                       IF via = "cookie" THEN presented ELSE None)
  IN  /\ got = None
      /\ got' = Some(Frame("get", name, <<>>, presented, via, res, res.kind = "raise", 0,
                           PyNone))
      /\ UNCHANGED << cookie_secret, ticks, slept, held, handler, normaliser, instances >>

\* cookies.delete(name, path=path, domain=domain)
Delete(name, path, domain) ==
  /\ got = None
  /\ held' = Some(Written(CookieDelete(name, path, domain), name, <<>>, clock, PyNone))
  /\ got' = Some(DeleteFrame(name, path, domain, held))
  /\ UNCHANGED << cookie_secret, ticks, slept, handler, normaliser, instances >>

\* the operation's frame is dropped
Return ==
  /\ got # None
  /\ got' = None
  /\ UNCHANGED << cookie_secret, ticks, slept, held, handler, normaliser, instances >>

\* the wrapper used by an honest client while time passes
CookieNext ==
  \/ Tick
  \/ Sleep
  \/ /\ got = None
     /\ \E name \in CookieNames, value \in Payloads, e \in ExpiresDaysArgs :
          Set(name, value, e)
  \/ /\ got = None
     /\ \E name \in CookieNames, via \in {"cookie", "arg"}, presented \in Honest :
          Get(name, presented, via)
  \/ /\ got = None
     /\ \E name \in CookieNames, path \in Paths, domain \in Domains :
          Delete(name, path, domain)
  \/ Return

CookieSpec == Init /\ [][CookieNext]_vars

\* the wrapper read by a client that alters what it was issued
TamperNext ==
  \/ Sleep
  \/ /\ got = None
     /\ \E name \in CookieNames, value \in Payloads : Set(name, value, PyInt(30))
  \/ /\ got = None
     /\ \E name \in CookieNames :
          \E presented \in Tampered(name, clock) : Get(name, presented, "cookie")
  \/ Return

TamperSpec == Init /\ [][TamperNext]_vars

(***************************************************************************)
(* The request handler (weblayer/request.py).                              *)
(***************************************************************************)
\* the token generate_hash() returns, and a value it never returns
Tokens == { <<116>> }
WrongToken == <<119>>

\* RequestHandler.__all__: the method names the selector finds
Exposed == {"head", "get"}
MethodNames == {"get", "post"}

\* what the invoked handler method does
Behaviours ==
  {"return_none", "return_unicode", "raise_http", "raise_other", "raise_xsrf",
   "call_xsrf_validate", "read_xsrf_token", "read_xsrf_input"}

\* value.lower(), character by character
LowerChar(ch) ==
  IF IsB64Char(ch) /\ B64Value(ch) < 26 THEN B64Alphabet[B64Value(ch) + 27] ELSE ch

Lower(s) == [i \in 1..Len(s) |-> LowerChar(s[i])]

\* an object that can be returned as the response
Object(id, callable, status, body, unicode_body, content_type) ==
  [id |-> id, callable |-> callable, status |-> status, body |-> body,
   unicode_body |-> unicode_body, content_type |-> content_type]

NoObject == Object("", FALSE, 0, "", "", "")

\* the response the handler is constructed with
FreshResponse == Object("response", TRUE, 200, "", "", "text/html")

\* request.get_response(exception): the response of a webob HTTP exception
ExceptionResponse(status) == Object("exception", TRUE, status, "", "", "text/html")

\* BaseHandler.error(exception=None, status=500)
error(exception, status) ==
  IF exception = None THEN ExceptionResponse(status)
  ELSE ExceptionResponse(exception[1])

\* `self.error()` with the default status
handle_method_not_found_default_status == error(None, 500)

handle_method_not_found == error(None, 405)
handle_xsrf_error == error(None, 403)
handle_system_error == error(None, 500)

\* a value returned by a handler method
HandlerResponse(type, obj, text) == [type |-> type, obj |-> obj, text |-> text]

ReturnedNone == HandlerResponse("NoneType", NoObject, "")
ReturnedCallable(obj) == HandlerResponse("callable", obj, "")

\* the cookie's token is never kept: every instance generates its own
TokenFrom_always_fresh(r, fresh, secret, c) ==
  IF r.kind = "raise"
    THEN [exc |-> r.exc, token |-> <<>>, cache |-> None,
          wrote |-> None, gets |-> 1, sets |-> 0]
  ELSE [exc |-> "", token |-> fresh, cache |-> Some(fresh),
        wrote |-> Some(Written(
                   CookieSet(secret, c, XsrfName, fresh, None, PyNone).cookie[1],
                   XsrfName, fresh, c, PyNone)),
        gets |-> 1, sets |-> 1]

\* xsrf_token once cookies.get('_xsrf') has given r: a valid token is kept,
\* otherwise a fresh one is generated and set with expires_days=None
TokenFrom(r, fresh, secret, c) ==
  IF r.kind = "raise"
    THEN [exc |-> r.exc, token |-> <<>>, cache |-> None,
          wrote |-> None, gets |-> 1, sets |-> 0]
  ELSE IF r.kind = "value" /\ r.value # <<>>
    THEN [exc |-> "", token |-> r.value, cache |-> Some(r.value),
          wrote |-> None, gets |-> 1, sets |-> 0]
  ELSE [exc |-> "", token |-> fresh, cache |-> Some(fresh),
        wrote |-> Some(Written(
                   CookieSet(secret, c, XsrfName, fresh, None, PyNone).cookie[1],
                   XsrfName, fresh, c, PyNone)),
        gets |-> 1, sets |-> 1]

\* BaseHandler.xsrf_token, read at clock c when generate_hash() would give `fresh`
XsrfToken(h, fresh, secret, c) ==
  IF h.xsrf_token # None
    THEN [exc |-> "", token |-> h.xsrf_token[1], cache |-> h.xsrf_token,
          wrote |-> None, gets |-> 0, sets |-> 0]
  ELSE TokenFrom(CookieGet(secret, c, XsrfName, None, h.cookie), fresh, secret, c)

Untouched(h) ==
  [exc |-> "", token |-> <<>>, cache |-> h.xsrf_token, wrote |-> None,
   gets |-> 0, sets |-> 0]

\* request_token != self.xsrf_token, once xsrf_token has given t
CompareToken(h, t) ==
  IF t.exc # "" THEN t
  ELSE IF h.param[1] # t.token THEN [t EXCEPT !.exc = "XSRFError"]
  ELSE t

\* no exemption for X-Requested-With: XMLHttpRequest
XsrfValidate_xhr_checked(h, fresh, secret, c) ==
  IF Lower(h.method) # <<"p","o","s","t">> THEN Untouched(h)
  ELSE IF h.param = None THEN [Untouched(h) EXCEPT !.exc = "XSRFError"]
  ELSE CompareToken(h, XsrfToken(h, fresh, secret, c))

\* BaseHandler.xsrf_validate
XsrfValidate(h, fresh, secret, c) ==
  IF Lower(h.method) # <<"p","o","s","t">> THEN Untouched(h)
  ELSE IF h.xhr THEN Untouched(h)
  ELSE IF h.param = None THEN [Untouched(h) EXCEPT !.exc = "XSRFError"]
  ELSE CompareToken(h, XsrfToken(h, fresh, secret, c))

\* `or` in place of `and`: one flag is enough to run the guard
Guard_either_flag(h, fresh, secret, c) ==
  IF h.check_xsrf \/ h.settings_check_xsrf
    THEN [XsrfValidate(h, fresh, secret, c) EXCEPT !.token = <<>>] @@ [ran |-> 1]
    ELSE Untouched(h) @@ [ran |-> 0]

\* the guard step of __call__
Guard(h, fresh, secret, c) ==
  IF h.check_xsrf /\ h.settings_check_xsrf
    THEN [XsrfValidate(h, fresh, secret, c) EXCEPT !.token = <<>>] @@ [ran |-> 1]
    ELSE Untouched(h) @@ [ran |-> 0]

\* a handler method that returns None unless the step it makes raises;
\* `read` is the token the step handed to the method
Raising(step, read) ==
  [exc |-> step.exc, http |-> None, value |-> ReturnedNone,
   effect |-> [step EXCEPT !.token = <<>>],
   read |-> IF step.exc = "" THEN read ELSE None]

\* a handler method that touches no token
Quiet(h, exc, http, value) ==
  [exc |-> exc, http |-> http, value |-> value, effect |-> Untouched(h), read |-> None]

\* BaseHandler.xsrf_input: the tag is built from xsrf_token once and kept
XsrfInput(h, fresh, secret, c) ==
  IF h.xsrf_input # None
    THEN [Quiet(h, "", None, ReturnedNone) EXCEPT !.read = h.xsrf_input]
    ELSE Raising(XsrfToken(h, fresh, secret, c),
                 Some(XsrfToken(h, fresh, secret, c).token))

\* method(*args, **kwargs): what the handler method returns or raises
Invoke(h, behaviour, fresh, secret, c) ==
  CASE behaviour = "return_none" -> Quiet(h, "", None, ReturnedNone)
    [] behaviour = "return_unicode" ->
         Quiet(h, "", None, HandlerResponse("unicode", NoObject, "hello"))
    [] behaviour = "raise_http" -> Quiet(h, "HTTPException", Some(404), ReturnedNone)
    [] behaviour = "raise_other" -> Quiet(h, "Exception", None, ReturnedNone)
    [] behaviour = "raise_xsrf" -> Quiet(h, "XSRFError", None, ReturnedNone)
    [] behaviour = "read_xsrf_token" ->
         Raising(XsrfToken(h, fresh, secret, c),
                 Some(XsrfToken(h, fresh, secret, c).token))
    [] behaviour = "read_xsrf_input" -> XsrfInput(h, fresh, secret, c)
    [] behaviour = "call_xsrf_validate" ->
         Raising(XsrfValidate(h, fresh, secret, c), None)

(***************************************************************************)
(* DefaultToJSONResponseNormaliser (weblayer/normalise.py).                *)
(***************************************************************************)
\* The kinds of value a handler method returns are "callable", "callable_str"
\* (an instance of a str subclass that defines __call__), "str", "unicode",
\* "NoneType" and "dict".

\* callable(handler_response)
IsCallable(handler_response) == handler_response.type \in {"callable", "callable_str"}

\* isinstance(handler_response, str)
IsStr(handler_response) == handler_response.type \in {"str", "callable_str"}

\* isinstance(handler_response, unicode)
IsUnicode(handler_response) == handler_response.type = "unicode"

JsonContentType == "application/json; charset=UTF-8"

\* a json_encode function, by the type and text of what it returns
Encoder(type, text) == [type |-> type, text |-> text]

\* the encoder used when none is injected
utils_json_encode == Encoder("str", "{json}")

\* DefaultToJSONResponseNormaliser.__init__
Normaliser(response, json_encode, json_content_type) ==
  [response |-> response, json_encode |-> json_encode,
   json_content_type |-> json_content_type]

\* the normaliser __call__ builds around self.response
DefaultNormaliser(response) == Normaliser(response, utils_json_encode, JsonContentType)

\* the held response with the encoder's output as its body
JsonBody(n) ==
  IF n.json_encode.type = "str"
    THEN [n.response EXCEPT !.content_type = n.json_content_type,
                            !.body = n.json_encode.text]
    ELSE [n.response EXCEPT !.content_type = n.json_content_type,
                            !.unicode_body = n.json_encode.text]

\* the held response after normalise, when handler_response is not callable
Updated(n, handler_response) ==
  IF IsStr(handler_response) THEN [n.response EXCEPT !.body = handler_response.text]
  ELSE IF IsUnicode(handler_response)
    THEN [n.response EXCEPT !.unicode_body = handler_response.text]
  ELSE IF handler_response.type = "NoneType" THEN n.response
  ELSE JsonBody(n)

\* isinstance(handler_response, str) tested before callable(handler_response)
normalise_str_first(n, handler_response) ==
  IF IsStr(handler_response) \/ ~IsCallable(handler_response)
    THEN [returned |-> Updated(n, handler_response),
          response |-> Updated(n, handler_response),
          previous |-> Updated(n, handler_response)]
    ELSE [returned |-> handler_response.obj, response |-> handler_response.obj,
          previous |-> n.response]

\* normalise(None) resets the content type of the held response
normalise_none_resets(n, handler_response) ==
  IF IsCallable(handler_response)
    THEN [returned |-> handler_response.obj, response |-> handler_response.obj,
          previous |-> n.response]
  ELSE IF handler_response.type = "NoneType"
    THEN [returned |-> [n.response EXCEPT !.content_type = "text/html"],
          response |-> [n.response EXCEPT !.content_type = "text/html"],
          previous |-> [n.response EXCEPT !.content_type = "text/html"]]
  ELSE [returned |-> Updated(n, handler_response),
        response |-> Updated(n, handler_response),
        previous |-> Updated(n, handler_response)]

\* DefaultToJSONResponseNormaliser.normalise on normaliser n: the object
\* returned, the response n holds after the call, and the object n held before
\* the call as it is after the call
normalise(n, handler_response) ==
  IF IsCallable(handler_response)
    THEN [returned |-> handler_response.obj, response |-> handler_response.obj,
          previous |-> n.response]
    ELSE [returned |-> Updated(n, handler_response),
          response |-> Updated(n, handler_response),
          previous |-> Updated(n, handler_response)]

NotInvoked(h) == Quiet(h, "", None, ReturnedNone)

\* no `except XSRFError` around the guard: its error leaves __call__
Raised_guard_uncaught(h, found, g, m) ==
  IF ~found THEN ""
  ELSE IF g.exc # "" THEN g.exc
  ELSE IF m.exc \in {"", "HTTPException"} THEN ""
  ELSE IF h.throw_errors THEN m.exc
  ELSE ""

\* paste.throw_errors not consulted: the method's exception is never re-raised
Raised_never_rethrown(h, found, g, m) ==
  IF ~found THEN ""
  ELSE IF g.exc = "XSRFError" THEN ""
  ELSE IF g.exc # "" THEN g.exc
  ELSE ""

\* what __call__ raises, given the guard's result g and the method's result m
Raised(h, found, g, m) ==
  IF ~found THEN ""
  ELSE IF g.exc = "XSRFError" THEN ""
  ELSE IF g.exc # "" THEN g.exc
  ELSE IF m.exc \in {"", "HTTPException"} THEN ""
  ELSE IF h.throw_errors THEN m.exc
  ELSE ""

\* one `except XSRFError` around guard and method alike
HandlerResponseOf_xsrf_anywhere(found, g, m) ==
  IF ~found THEN ReturnedCallable(handle_method_not_found)
  ELSE IF g.exc = "XSRFError" \/ m.exc = "XSRFError"
    THEN ReturnedCallable(handle_xsrf_error)
  ELSE IF m.exc = "" THEN m.value
  ELSE IF m.exc = "HTTPException" THEN ReturnedCallable(error(m.http, 500))
  ELSE ReturnedCallable(handle_system_error)

\* no `except HTTPException`: a status exception handled as a system error
HandlerResponseOf_http_as_system_error(found, g, m) ==
  IF ~found THEN ReturnedCallable(handle_method_not_found)
  ELSE IF g.exc = "XSRFError" THEN ReturnedCallable(handle_xsrf_error)
  ELSE IF m.exc = "" THEN m.value
  ELSE ReturnedCallable(handle_system_error)

\* the handler_response __call__ hands to the normaliser
HandlerResponseOf(found, g, m) ==
  IF ~found THEN ReturnedCallable(handle_method_not_found)
  ELSE IF g.exc = "XSRFError" THEN ReturnedCallable(handle_xsrf_error)
  ELSE IF m.exc = "" THEN m.value
  ELSE IF m.exc = "HTTPException" THEN ReturnedCallable(error(m.http, 500))
  ELSE ReturnedCallable(handle_system_error)

\* the calls __call__ makes, in the order of lines 136, 143, 148 and 166:
\* xsrf_validate when the guard runs, the method when it is invoked, normalise
\* unless an exception leaves __call__
Stages(guard_ran, invoked, raised) ==
  <<"select_method">>
    \o (IF guard_ran = 1 THEN <<"xsrf_validate">> ELSE <<>>)
    \o (IF invoked THEN <<"method">> ELSE <<>>)
    \o (IF raised = "" THEN <<"normalise">> ELSE <<>>)

\* `self.response = normaliser.response`: the handler follows the reference
\* the normaliser holds
Normalised_rebinds(h, g, m, invoked, raised, handler_response, n) ==
  [raised |-> raised,
   returned |-> IF raised = "" THEN n.returned ELSE NoObject,
   response |-> IF raised = "" THEN n.response ELSE h.response,
   normalised |-> IF raised = "" THEN 1 ELSE 0,
   handler_response |-> IF raised = "" THEN handler_response ELSE ReturnedNone,
   guard_ran |-> g.ran, guard_exc |-> g.exc,
   invoked |-> IF invoked THEN 1 ELSE 0, method_exc |-> m.exc,
   stages |-> Stages(g.ran, invoked, raised),
   cache |-> m.effect.cache, read |-> m.read,
   wrote |-> IF m.effect.wrote # None THEN m.effect.wrote ELSE g.wrote,
   gets |-> g.gets + m.effect.gets, sets |-> g.sets + m.effect.sets]

\* the end of __call__: the normaliser is built around self.response and called
Normalised(h, g, m, invoked, raised, handler_response, n) ==
  [raised |-> raised,
   returned |-> IF raised = "" THEN n.returned ELSE NoObject,
   response |-> IF raised = "" THEN n.previous ELSE h.response,
   normalised |-> IF raised = "" THEN 1 ELSE 0,
   handler_response |-> IF raised = "" THEN handler_response ELSE ReturnedNone,
   guard_ran |-> g.ran, guard_exc |-> g.exc,
   invoked |-> IF invoked THEN 1 ELSE 0, method_exc |-> m.exc,
   stages |-> Stages(g.ran, invoked, raised),
   cache |-> m.effect.cache, read |-> m.read,
   wrote |-> IF m.effect.wrote # None THEN m.effect.wrote ELSE g.wrote,
   gets |-> g.gets + m.effect.gets, sets |-> g.sets + m.effect.sets]

Outcome(h, found, g, m, handler_response) ==
  Normalised(h, g, m, found /\ g.exc = "", Raised(h, found, g, m),
             handler_response,
             normalise(DefaultNormaliser(h.response), handler_response))

\* the method is invoked when it was found and the guard let the request pass
AfterGuard(h, found, g, behaviour, fresh, secret, c) ==
  Outcome(h, found, g,
          IF found /\ g.exc = ""
            THEN Invoke([h EXCEPT !.xsrf_token = g.cache], behaviour, fresh, secret, c)
            ELSE NotInvoked([h EXCEPT !.xsrf_token = g.cache]),
          HandlerResponseOf(found, g,
            IF found /\ g.exc = ""
              THEN Invoke([h EXCEPT !.xsrf_token = g.cache], behaviour, fresh, secret, c)
              ELSE NotInvoked([h EXCEPT !.xsrf_token = g.cache])))

\* BaseHandler.__call__(method_name) on handler h, whose method does `behaviour`
Dispatch(h, method_name, behaviour, fresh, secret, c) ==
  AfterGuard(h, method_name \in Exposed,
             IF method_name \in Exposed THEN Guard(h, fresh, secret, c)
             ELSE Untouched(h) @@ [ran |-> 0],
             behaviour, fresh, secret, c)

(***************************************************************************)
(* Requests.                                                               *)
(***************************************************************************)
GET == <<"G","E","T">>
POST == <<"P","O","S","T">>

\* the verb, the X-Requested-With header and the `_xsrf` form field of a request
Shape(method, xhr, param) == [method |-> method, xhr |-> xhr, param |-> param]

RequestShapes ==
  { Shape(GET, FALSE, None),
    Shape(GET, FALSE, Some(WrongToken)),
    Shape(POST, TRUE, None),
    Shape(POST, TRUE, Some(WrongToken)),
    Shape(<<"P","o","s","t">>, FALSE, None),
    Shape(POST, FALSE, Some(WrongToken)) }
    \cup { Shape(POST, FALSE, Some(t)) : t \in Tokens }

\* the handler's check_xsrf attribute and settings['check_xsrf']
CheckFlags == BOOLEAN \X BOOLEAN

\* request.cookies.get('_xsrf'): absent, malformed, or the cookie the client holds
RequestCookies ==
  { None, Some(<<"a","|","b">>), Some(<<"a","|","b","|","c">>) }
    \cup (IF held = None THEN {} ELSE { Some(held[1].cookie.value) })

Handler(shape, cookie, throw_errors, flags) ==
  [method |-> shape.method, xhr |-> shape.xhr, param |-> shape.param,
   cookie |-> cookie, throw_errors |-> throw_errors,
   check_xsrf |-> flags[1], settings_check_xsrf |-> flags[2],
   xsrf_token |-> None, xsrf_input |-> None, response |-> FreshResponse,
   calls |-> 0, gets |-> 0, sets |-> 0]

(***************************************************************************)
(* Actions of the request handler.                                         *)
(***************************************************************************)
\* BaseHandler.__init__ for a new request
NewHandler(shape, cookie, throw_errors, flags) ==
  /\ got = None
  /\ handler' = Some(Handler(shape, cookie, throw_errors, flags))
  /\ UNCHANGED << cookie_secret, ticks, slept, held, got, normaliser, instances >>

\* handler(method_name)
Called(method_name, behaviour, d) ==
  /\ handler' = Some([handler[1] EXCEPT
                        !.xsrf_token = d.cache,
                        !.xsrf_input = IF behaviour = "read_xsrf_input" /\ d.read # None
                                         THEN d.read ELSE @,
                        !.response = d.response,
                        !.calls = @ + 1,
                        !.gets = @ + d.gets,
                        !.sets = @ + d.sets])
  /\ held' = IF d.wrote # None THEN d.wrote ELSE held
  /\ got' = Some([op |-> "call", method_name |-> method_name,
                  behaviour |-> IF d.invoked = 1 THEN behaviour ELSE "",
                  raised |-> d.raised, returned |-> d.returned,
                  normalised |-> d.normalised,
                  handler_response |-> d.handler_response,
                  guard_ran |-> d.guard_ran, guard_exc |-> d.guard_exc,
                  invoked |-> d.invoked, method_exc |-> d.method_exc,
                  stages |-> d.stages,
                  before |-> held,
                  response_before |-> handler[1].response,
                  read |-> d.read,
                  gets |-> d.gets, sets |-> d.sets])

Call(method_name, behaviour, fresh) ==
  /\ got = None
  /\ handler # None
  /\ handler[1].calls < MaxCalls
  /\ Called(method_name, behaviour,
            Dispatch(handler[1], method_name, behaviour, fresh, cookie_secret, clock))
  /\ UNCHANGED << cookie_secret, ticks, slept, normaliser, instances >>

Next ==
  \/ Sleep
  \/ /\ got = None
     /\ \E shape \in RequestShapes, cookie \in RequestCookies,
           throw_errors \in BOOLEAN, flags \in CheckFlags :
          NewHandler(shape, cookie, throw_errors, flags)
  \/ /\ got = None
     /\ handler # None
     /\ \E method_name \in MethodNames, behaviour \in Behaviours, fresh \in Tokens :
          Call(method_name, behaviour, fresh)
  \/ Return

DefaultSecret == <<"k">>

\* the handler's application is configured with one secret
HandlerInit == Init /\ cookie_secret = DefaultSecret

Spec == HandlerInit /\ [][Next]_vars

(***************************************************************************)
(* The normaliser used on its own.                                         *)
(***************************************************************************)
\* a response whose bodies and content type were written before
UsedResponse == Object("response", TRUE, 200, "old", "old", "text/plain")

HeldResponses == { FreshResponse, UsedResponse }

Encoders == { Encoder("str", "{json}"), Encoder("unicode", "{json}") }

ContentTypes == { JsonContentType, "a" }

\* the values handed to normalise
HandlerResponses ==
  { ReturnedNone,
    ReturnedCallable(ExceptionResponse(404)),
    HandlerResponse("callable_str", Object("callable_str", TRUE, 0, "", "", ""), "call me"),
    HandlerResponse("str", NoObject, "hello"),
    HandlerResponse("unicode", NoObject, "hello"),
    HandlerResponse("dict", NoObject, "") }

\* DefaultToJSONResponseNormaliser(response, json_encode, json_content_type)
NewNormaliser(response, json_encode, json_content_type) ==
  /\ got = None
  /\ normaliser' = Some(Normaliser(response, json_encode, json_content_type))
  /\ UNCHANGED << cookie_secret, ticks, slept, held, got, handler, instances >>

\* normaliser.normalise(handler_response)
Normalise(handler_response) ==
  /\ got = None
  /\ normaliser # None
  /\ normaliser' = Some([normaliser[1] EXCEPT
                           !.response = normalise(normaliser[1], handler_response).response])
  /\ got' = Some([op |-> "normalise", handler_response |-> handler_response,
                  before |-> normaliser[1].response,
                  returned |-> normalise(normaliser[1], handler_response).returned,
                  previous |-> normalise(normaliser[1], handler_response).previous])
  /\ UNCHANGED << cookie_secret, ticks, slept, held, handler, instances >>

\* the frame is dropped; the normaliser stays
Returned ==
  /\ got # None
  /\ got' = None
  /\ UNCHANGED << cookie_secret, ticks, slept, held, handler, normaliser, instances >>

NormaliseNext ==
  \/ /\ got = None
     /\ \E response \in HeldResponses, json_encode \in Encoders,
           json_content_type \in ContentTypes :
          NewNormaliser(response, json_encode, json_content_type)
  \/ /\ got = None
     /\ normaliser # None
     /\ \E handler_response \in HandlerResponses : Normalise(handler_response)
  \/ Returned

NormaliseSpec == HandlerInit /\ [][NormaliseNext]_vars

(***************************************************************************)
(* _time_independent_equals used on its own.                               *)
(***************************************************************************)
\* texts of length 0, 1, 2 and 4; the last three differ at the last, at the
\* first and at no position
Texts ==
  { <<>>, <<"a">>, <<"b">>, <<E9>>, <<"a","b">>, <<"b","a">>,
    <<"a","a","a","a">>, <<"a","a","a","b">>, <<"b","a","a","a">> }

\* the operands: str and unicode texts, None, [], and tuples of 0, 1 and 2 items
Operands ==
  { PyValue("str", t) : t \in Texts }
    \cup { PyValue("unicode", t) : t \in { <<"b">>, <<E9>>, <<"a","b">> } }
    \cup { PyValue("NoneType", <<>>), PyValue("list", <<>>) }
    \cup { PyValue("tuple", t) : t \in { <<>>, <<"a">>, <<"a","b">> } }

\* _time_independent_equals(a, b) is entered
Equals(a, b) ==
  /\ got = None
  /\ got' = Some(EqualsEnter(a, b))
  /\ UNCHANGED << cookie_secret, ticks, slept, held, handler, normaliser, instances >>

\* one iteration of the loop
Fold ==
  /\ got # None
  /\ got[1].pc = "loop"
  /\ ~LoopDone(got[1])
  /\ got' = Some(FoldStep(got[1]))
  /\ UNCHANGED << cookie_secret, ticks, slept, held, handler, normaliser, instances >>

\* the loop is left and the function returns
EqualsReturn ==
  /\ got # None
  /\ got[1].pc = "loop"
  /\ LoopDone(got[1])
  /\ got' = Some(EqualsExit(got[1]))
  /\ UNCHANGED << cookie_secret, ticks, slept, held, handler, normaliser, instances >>

\* the caller drops the frame
Compared ==
  /\ got # None
  /\ got[1].pc = "done"
  /\ got' = None
  /\ UNCHANGED << cookie_secret, ticks, slept, held, handler, normaliser, instances >>

EqualsNext ==
  \/ /\ got = None
     /\ \E a \in Operands, b \in Operands : Equals(a, b)
  \/ Fold
  \/ EqualsReturn
  \/ Compared

EqualsSpec == HandlerInit /\ [][EqualsNext]_vars

(***************************************************************************)
(* Two requests served at the same time, each by its own BaseHandler with  *)
(* its own request, response and cookie wrapper.  A dispatch yields to the *)
(* other thread between its guard and the invocation of its method.        *)
(***************************************************************************)
\* a cookie issued for XsrfName when the clock started
IssuedCookie(token) ==
  Some(SignedValue(DefaultSecret, XsrfName, token, DecimalOf(StartTime)))

\* what generate_hash() gives the two threads
FreshTokens == << <<116>>, <<117>> >>

\* the other of the threads 1 and 2
Other(i) == 3 - i

\* `self._xsrf_token` kept as an attribute of the class: the token any
\* instance cached
Cache_on_class(insts, i) ==
  IF insts[i][1].h.xsrf_token # None THEN insts[i][1].h.xsrf_token
  ELSE IF insts[Other(i)] # None THEN insts[Other(i)][1].h.xsrf_token
  ELSE None

\* `self._xsrf_token`: the token cached on instance i
Cache(insts, i) == insts[i][1].h.xsrf_token

\* lines 136-145 of __call__: method selection and the guard
GuardStage(h, method_name, fresh, secret, c) ==
  IF method_name \in Exposed THEN Guard(h, fresh, secret, c)
  ELSE Untouched(h) @@ [ran |-> 0]

\* an instance and the dispatch it serves; `alone` is the instance as built,
\* `interleaved` whether a step was taken while the other dispatch was under way
Instance(h, method_name, behaviour, fresh) ==
  [h |-> h, alone |-> h, method_name |-> method_name, behaviour |-> behaviour,
   fresh |-> fresh, pc |-> "start", g |-> None, out |-> None, interleaved |-> FALSE]

\* the other dispatch is between its guard and its method
Underway(i) == instances[Other(i)] # None /\ instances[Other(i)][1].pc = "guarded"

\* thread i builds a handler for its request
Receive(i, shape, cookie, behaviour) ==
  /\ instances[i] = None
  /\ instances' = [instances EXCEPT ![i] =
       Some(Instance(Handler(shape, cookie, FALSE, <<TRUE, TRUE>>), "get",
                     behaviour, FreshTokens[i]))]
  /\ UNCHANGED << cookie_secret, ticks, slept, held, got, handler, normaliser >>

\* thread i runs __call__ up to the end of the guard
GuardStep(i) ==
  /\ instances[i] # None
  /\ instances[i][1].pc = "start"
  /\ LET t == instances[i][1]
         g == GuardStage([t.h EXCEPT !.xsrf_token = Cache(instances, i)],
                         t.method_name, t.fresh, cookie_secret, clock)
     IN  instances' = [instances EXCEPT ![i] =
           Some([t EXCEPT !.pc = "guarded", !.g = Some(g),
                          !.h = [t.h EXCEPT !.xsrf_token = g.cache],
                          !.interleaved = @ \/ Underway(i)])]
  /\ UNCHANGED << cookie_secret, ticks, slept, held, got, handler, normaliser >>

\* thread i runs the rest of __call__: the method and the normaliser
FinishStep(i) ==
  /\ instances[i] # None
  /\ instances[i][1].pc = "guarded"
  /\ LET t == instances[i][1]
         d == AfterGuard([t.h EXCEPT !.xsrf_token = Cache(instances, i)],
                         t.method_name \in Exposed,
                         [t.g[1] EXCEPT !.cache = Cache(instances, i)],
                         t.behaviour, t.fresh, cookie_secret, clock)
     IN  instances' = [instances EXCEPT ![i] =
           Some([t EXCEPT !.pc = "done", !.out = Some(d),
                          !.h = [t.h EXCEPT !.xsrf_token = d.cache,
                                            !.response = d.response],
                          !.interleaved = @ \/ Underway(i)])]
  /\ UNCHANGED << cookie_secret, ticks, slept, held, got, handler, normaliser >>

\* the response is sent and the instance dropped
Respond(i) ==
  /\ instances[i] # None
  /\ instances[i][1].pc = "done"
  /\ instances' = [instances EXCEPT ![i] = None]
  /\ UNCHANGED << cookie_secret, ticks, slept, held, got, handler, normaliser >>

ConcurrentNext ==
  \E i \in {1, 2} :
    \/ \E shape \in { Shape(GET, FALSE, None), Shape(POST, FALSE, Some(<<116>>)) },
          cookie \in { None, IssuedCookie(<<116>>) },
          behaviour \in {"return_unicode", "read_xsrf_token", "read_xsrf_input"} :
         Receive(i, shape, cookie, behaviour)
    \/ GuardStep(i)
    \/ FinishStep(i)
    \/ Respond(i)

ConcurrentSpec == HandlerInit /\ [][ConcurrentNext]_vars

(***************************************************************************)
(* The XSRF token carried from one request to the next by the cookie.      *)
(***************************************************************************)
\* a page request or a form post carrying the wrong, the first or the second
\* token, from a browser that sends no `_xsrf` cookie or the one it holds; the
\* method reads xsrf_token or xsrf_input, or neither
RoundTripNext ==
  \/ Tick
  \/ Sleep
  \/ /\ got = None
     /\ \E shape \in { Shape(GET, FALSE, None), Shape(POST, FALSE, Some(WrongToken)),
                       Shape(POST, FALSE, Some(FreshTokens[1])),
                       Shape(POST, FALSE, Some(FreshTokens[2])) },
           cookie \in { None } \cup
                      (IF held = None THEN {} ELSE { Some(held[1].cookie.value) }) :
          NewHandler(shape, cookie, FALSE, <<TRUE, TRUE>>)
  \/ /\ got = None
     /\ handler # None
     /\ \E behaviour \in {"return_none", "read_xsrf_token", "read_xsrf_input"},
           i \in {1, 2} :
          Call("get", behaviour, FreshTokens[i])
  \/ Return

RoundTripSpec == HandlerInit /\ [][RoundTripNext]_vars

(***************************************************************************)
(* Properties.                                                             *)
(***************************************************************************)
GotGet == got # None /\ got[1].op = "get"
GotCall == got # None /\ got[1].op = "call"

\* the cookie the client holds is presented unchanged
PresentsHeld == GotGet /\ held # None /\ got[1].presented = Some(held[1].cookie.value)

\* ... under the name it was set with
HonestRead == PresentsHeld /\ got[1].name = held[1].name

\* the stamped second of the held cookie, in ticks
StampTicks == IntTime(held[1].at) * TicksPerSecond

WindowTicks == StaleSeconds * TicksPerSecond

\* C1: with paste.throw_errors unset, __call__ never raises: every dispatch
\* ends by returning a response.
C1_CallNeverRaises ==
  (GotCall /\ ~handler[1].throw_errors) => got[1].raised = ""

\* C2 (as stated): a cookie value written by set(n, v) and presented back to
\* get(n) less than 31 days after the set call makes get return exactly v.
C2_RoundTripWithin31DaysOfSet ==
  (HonestRead /\ clock - held[1].at < WindowTicks)
    => got[1].res = ResValue(held[1].payload)

\* C2 (amended): a cookie value written by set(n, v) and presented back to
\* get(n) no later than 31 days after the whole second set stamped on it makes
\* get return exactly v.
C2_RoundTripWithin31DaysOfStamp ==
  (HonestRead /\ clock <= StampTicks + WindowTicks)
    => got[1].res = ResValue(held[1].payload)

\* a non-empty payload read back exactly 31 days after its stamp
C2_Witness ==
  /\ HonestRead
  /\ clock = StampTicks + WindowTicks
  /\ held[1].payload # <<>>
  /\ got[1].res = ResValue(held[1].payload)

\* C3: every value get accepts carries exactly the (name, base64 payload,
\* timestamp) triple of the set call that issued the client's cookie.
C3_AcceptedOnlyAsIssued ==
  (GotGet /\ got[1].res.kind = "value")
    => /\ held # None
       /\ got[1].name = held[1].name
       /\ Split(got[1].presented[1])[1] = b64encode(held[1].payload)
       /\ Split(got[1].presented[1])[2] = held[1].timestamp

\* C4: a valid token with any single character of its signature segment
\* replaced by a different character is rejected: get returns None.
C4_TamperedSignatureRejected ==
  (GotGet /\ held # None /\ got[1].presented # None
     /\ got[1].presented[1] \in SigFlips(held[1].cookie.value))
    => got[1].res = ResNone

\* a fresh token, read under its own name, rejected for one replaced hex digit
C4_Witness ==
  /\ GotGet /\ held # None /\ got[1].presented # None
  /\ got[1].name = held[1].name
  /\ clock <= StampTicks + WindowTicks
  /\ got[1].presented[1] \in SigFlips(held[1].cookie.value)
  /\ Len(Split(got[1].presented[1])) = 3
  /\ got[1].res = ResNone

\* C5: a cookie value produced by set(a, v) and presented unchanged to get(b)
\* with b # a is rejected: get returns None.
C5_NameBinding ==
  (PresentsHeld /\ got[1].name # held[1].name) => got[1].res = ResNone

\* a fresh token read under the other name
C5_Witness ==
  /\ PresentsHeld
  /\ got[1].name # held[1].name
  /\ clock <= StampTicks + WindowTicks
  /\ got[1].res = ResNone

\* the embedded timestamp of v is more than 31 days before clock c
StampedMoreThan31DaysBefore(v, c) ==
  /\ Len(Split(v)) = 3
  /\ IntParse(Split(v)[2]).ok
  /\ ~IntParse(Split(v)[2]).huge
  /\ (IntParse(Split(v)[2]).val + StaleSeconds) * TicksPerSecond < c

\* C6: get returns None for every token whose embedded timestamp is more than
\* 31 days before the current time, whatever its signature and expires_days.
C6_Expiry ==
  (GotGet /\ got[1].presented # None
     /\ StampedMoreThan31DaysBefore(got[1].presented[1], clock))
    => got[1].res = ResNone

\* a validly signed session cookie (expires_days=None), read under its own
\* name one tick after the window closed
C6_Witness ==
  /\ HonestRead
  /\ held[1].expires_days = PyNone
  /\ clock = StampTicks + WindowTicks + 1
  /\ got[1].res = ResNone

\* C7: get raises no exception, whatever the cookie value.
C7_GetNeverRaises ==
  GotGet => got[1].res.kind # "raise"

\* C8: when the selector finds no method, __call__ returns the 405 response
\* without raising and runs neither xsrf_validate nor a handler method.
C8_MethodNotFound ==
  (GotCall /\ got[1].method_name \notin Exposed)
    => /\ got[1].raised = ""
       /\ got[1].returned = ExceptionResponse(405)
       /\ got[1].guard_ran = 0
       /\ got[1].invoked = 0

\* a POST without the `_xsrf` field, XSRF checking on, dispatched to a missing method
C8_Witness ==
  /\ GotCall
  /\ got[1].method_name \notin Exposed
  /\ Lower(handler[1].method) = Lower(POST)
  /\ ~handler[1].xhr /\ handler[1].param = None
  /\ handler[1].check_xsrf /\ handler[1].settings_check_xsrf
  /\ got[1].returned.status = 405

\* C9: when the guard runs and xsrf_validate raises XSRFError, __call__
\* returns the 403 response and does not raise; and whenever the guard does
\* not complete, the handler method is not invoked in that dispatch.
C9_GuardRejection ==
  GotCall =>
    /\ (got[1].guard_ran = 1 /\ got[1].guard_exc = "XSRFError")
         => (got[1].raised = "" /\ got[1].returned = ExceptionResponse(403))
    /\ got[1].guard_exc # "" => got[1].invoked = 0

\* a POST whose `_xsrf` field differs from the token of its valid cookie
C9_Witness ==
  /\ GotCall
  /\ got[1].guard_exc = "XSRFError"
  /\ handler[1].param = Some(WrongToken)
  /\ handler[1].xsrf_token # None
  /\ got[1].sets = 0
  /\ got[1].returned.status = 403

\* C10 (as stated): every XSRFError raised during a dispatch, by the guard or
\* inside the handler method, becomes the 403 response and never leaves __call__.
C10_EveryXsrfErrorIs403 ==
  (GotCall /\ (got[1].guard_exc = "XSRFError" \/ got[1].method_exc = "XSRFError"))
    => /\ got[1].raised = ""
       /\ got[1].returned = ExceptionResponse(403)

\* C10 (amended): an XSRFError raised by the guard becomes the 403 response
\* and never leaves __call__; an XSRFError raised inside the handler method is
\* treated as any other non-HTTP exception: the 500 response when
\* paste.throw_errors is unset, re-raised when it is set.
C10_XsrfErrorByOrigin ==
  GotCall =>
    /\ got[1].guard_exc = "XSRFError"
         => (got[1].raised = "" /\ got[1].returned = ExceptionResponse(403))
    /\ (got[1].method_exc = "XSRFError" /\ ~handler[1].throw_errors)
         => (got[1].raised = "" /\ got[1].returned = ExceptionResponse(500))
    /\ (got[1].method_exc = "XSRFError" /\ handler[1].throw_errors)
         => got[1].raised = "XSRFError"

\* a handler method that calls xsrf_validate itself, the guard being switched off
C10_Witness ==
  /\ GotCall
  /\ got[1].behaviour = "call_xsrf_validate"
  /\ got[1].guard_ran = 0
  /\ got[1].method_exc = "XSRFError"
  /\ got[1].returned.status = 500

\* C11: when the invoked handler method raises an exception that is not an
\* HTTP-status exception, __call__ returns the 500 response if
\* paste.throw_errors is unset; if it is set, that exception leaves __call__
\* and the normaliser is not called.
C11_UnexpectedException ==
  (GotCall /\ got[1].invoked = 1 /\ got[1].method_exc \notin {"", "HTTPException"})
    => IF handler[1].throw_errors
         THEN got[1].raised = got[1].method_exc /\ got[1].normalised = 0
         ELSE got[1].raised = "" /\ got[1].returned = ExceptionResponse(500)

\* a method raising a plain exception under paste.throw_errors
C11_Witness ==
  /\ GotCall
  /\ got[1].behaviour = "raise_other"
  /\ handler[1].throw_errors
  /\ got[1].raised = "Exception"
  /\ got[1].normalised = 0

\* C12: when the invoked handler method raises an HTTP-status exception,
\* __call__ returns the response of that exception, with its status, and
\* raises nothing, whether or not paste.throw_errors is set.
C12_HttpException ==
  (GotCall /\ got[1].method_exc = "HTTPException")
    => /\ got[1].raised = ""
       /\ got[1].returned = ExceptionResponse(404)
       /\ got[1].handler_response = ReturnedCallable(ExceptionResponse(404))

\* a method raising 404 under paste.throw_errors
C12_Witness ==
  /\ GotCall
  /\ got[1].behaviour = "raise_http"
  /\ handler[1].throw_errors
  /\ got[1].returned.status = 404

\* xsrf_validate ran on its own in the dispatch: as the guard before a method
\* that touches no token, or called by the method with the guard switched off
ValidateRan ==
  /\ GotCall
  /\ \/ got[1].guard_ran = 1 /\ got[1].behaviour \in {"", "return_none"}
     \/ got[1].guard_ran = 0 /\ got[1].behaviour = "call_xsrf_validate"

\* what xsrf_validate raised in that dispatch ("" when it returned)
ValidateExc ==
  IF got[1].guard_ran = 1 THEN got[1].guard_exc ELSE got[1].method_exc

\* the request is not a POST, or carries X-Requested-With: XMLHttpRequest
Exempt == Lower(handler[1].method) # Lower(POST) \/ handler[1].xhr

\* C13: for a request whose verb is not POST (case-insensitively) and for a
\* POST with the XHR header, xsrf_validate returns without raising whatever
\* the `_xsrf` form field is, and no cookie is read or set.
C13_ValidateExempt ==
  (ValidateRan /\ Exempt)
    => /\ ValidateExc = ""
       /\ got[1].gets = 0
       /\ got[1].sets = 0

\* an XHR POST with a wrong `_xsrf` field and a valid `_xsrf` cookie passes the guard
C13_Witness ==
  /\ ValidateRan /\ got[1].guard_ran = 1
  /\ handler[1].method = POST /\ handler[1].xhr
  /\ handler[1].param = Some(WrongToken)
  /\ held # None /\ handler[1].cookie = Some(held[1].cookie.value)
  /\ got[1].invoked = 1
  /\ got[1].gets = 0

\* C14: for a POST without the XHR header, xsrf_validate raises XSRFError when
\* the `_xsrf` form field is absent or differs from the handler's xsrf_token,
\* and returns without raising when the field equals xsrf_token.
C14_ValidatePost ==
  (ValidateRan /\ ~Exempt)
    => IF handler[1].param = None THEN ValidateExc = "XSRFError"
       ELSE /\ handler[1].xsrf_token # None
            /\ ValidateExc =
                 (IF handler[1].param = handler[1].xsrf_token THEN "" ELSE "XSRFError")

\* the method of the dispatch read xsrf_token, directly or through xsrf_input
TokenRead ==
  /\ GotCall /\ got[1].invoked = 1
  /\ got[1].behaviour \in {"read_xsrf_token", "read_xsrf_input"}

\* what cookies.get('_xsrf') gives for the request of the handler
XsrfCookie == CookieGet(cookie_secret, clock, XsrfName, None, handler[1].cookie)

\* C15: on one handler instance, over any sequence of dispatches that read
\* xsrf_token, xsrf_input or run xsrf_validate: every read returns the one
\* cached token; cookies.get('_xsrf') and cookies.set('_xsrf', ...) are each
\* called at most once; set is called only when the request has no valid
\* `_xsrf` cookie, and then stores the fresh token with expires_days=None;
\* with a valid cookie its token is the one returned and nothing is set.
C15_TokenLazyIdempotent ==
  handler # None =>
    /\ handler[1].gets <= 1
    /\ handler[1].sets <= 1
    /\ TokenRead => (got[1].read # None /\ got[1].read = handler[1].xsrf_token)
    /\ handler[1].sets = 1 =>
         /\ XsrfCookie.kind # "value"
         /\ held # None
         /\ held[1].name = XsrfName
         /\ held[1].expires_days = PyNone
         /\ Some(held[1].payload) = handler[1].xsrf_token
    /\ (handler[1].gets = 1 /\ XsrfCookie.kind = "value")
         => (handler[1].sets = 0 /\ handler[1].xsrf_token = Some(XsrfCookie.value))

GotNormalise == got # None /\ got[1].op = "normalise"

\* C16: normalise tests callable, then str, then unicode, then None, and
\* treats anything else as JSON data: a callable becomes the held response and
\* is returned as it is; a str is written to body, a unicode to unicode_body,
\* None writes nothing; any other value sets content_type to the normaliser's
\* JSON content type and writes the encoder's output to body when it is a str
\* and to unicode_body otherwise.  What is returned is always the response the
\* normaliser holds after the call.
C16_NormalisePrecedence ==
  GotNormalise =>
    /\ got[1].returned = normaliser[1].response
    /\ CASE got[1].handler_response.type \in {"callable", "callable_str"} ->
              got[1].returned = got[1].handler_response.obj
         [] got[1].handler_response.type = "str" ->
              got[1].returned =
                [got[1].before EXCEPT !.body = got[1].handler_response.text]
         [] got[1].handler_response.type = "unicode" ->
              got[1].returned =
                [got[1].before EXCEPT !.unicode_body = got[1].handler_response.text]
         [] got[1].handler_response.type = "NoneType" ->
              got[1].returned = got[1].before
         [] OTHER ->
              /\ got[1].returned.content_type = normaliser[1].json_content_type
              /\ normaliser[1].json_encode.type = "str" =>
                   got[1].returned =
                     [got[1].before EXCEPT
                        !.content_type = normaliser[1].json_content_type,
                        !.body = normaliser[1].json_encode.text]
              /\ normaliser[1].json_encode.type # "str" =>
                   got[1].returned =
                     [got[1].before EXCEPT
                        !.content_type = normaliser[1].json_content_type,
                        !.unicode_body = normaliser[1].json_encode.text]

\* a callable instance of a str subclass was normalised by a normaliser that
\* held a used response, and came back as it was
C16_Witness ==
  /\ GotNormalise
  /\ got[1].handler_response.type = "callable_str"
  /\ got[1].before = UsedResponse
  /\ got[1].returned = got[1].handler_response.obj

\* C17: normalise(None) writes no field of the held response, keeps holding
\* it and returns it; normalise(callable) writes no field of the response the
\* normaliser held before the call.
C17_NormaliseFrame ==
  GotNormalise =>
    /\ got[1].handler_response.type = "NoneType" =>
         /\ got[1].previous = got[1].before
         /\ normaliser[1].response = got[1].before
         /\ got[1].returned = got[1].before
    /\ got[1].handler_response.type \in {"callable", "callable_str"} =>
         got[1].previous = got[1].before

\* None was normalised by a normaliser that held a used response
C17_Witness ==
  /\ GotNormalise
  /\ got[1].handler_response.type = "NoneType"
  /\ got[1].before = UsedResponse
  /\ got[1].returned = UsedResponse

GotSet == got # None /\ got[1].op = "set"

\* C18: set called with expires_days None or an int writes exactly one cookie,
\* under `name`, whose value is base64(value) | timestamp | signature with the
\* signature made from the secret and (name, base64(value), timestamp); its
\* max_age is expires_days * 86400 for a positive int and None for None and 0.
C18_SetWrites ==
  (GotSet /\ got[1].expires_days.kind \in {"int", "NoneType"})
    => /\ ~got[1].raised
       /\ got[1].writes = 1
       /\ held # None
       /\ held[1].cookie.name = got[1].name
       /\ held[1].cookie.value =
            b64encode(got[1].payload) \o <<"|">> \o DecimalOf(IntTime(clock))
              \o <<"|">> \o
              _generate_cookie_signature(cookie_secret,
                << got[1].name, b64encode(got[1].payload), DecimalOf(IntTime(clock)) >>)
       /\ (got[1].expires_days.kind = "int" /\ got[1].expires_days.n > 0)
            => held[1].cookie.max_age = Some(got[1].expires_days.n * SecondsPerDay)
       /\ got[1].expires_days \in {PyNone, PyInt(0)}
            => held[1].cookie.max_age = None

\* a non-empty payload set for 30 days: max_age is 2592000
C18_Witness ==
  /\ GotSet
  /\ got[1].expires_days = PyInt(30)
  /\ got[1].payload # <<>>
  /\ got[1].writes = 1
  /\ held[1].cookie.max_age = Some(30 * SecondsPerDay)

\* C19: set raises TypeError for every expires_days that is neither None nor
\* an int, 0.0 and '' included, and then writes no cookie.
C19_NonIntegerRaises ==
  (GotSet /\ got[1].expires_days.kind \notin {"int", "NoneType"})
    => got[1].raised /\ got[1].writes = 0

GotDelete == got # None /\ got[1].op = "delete"

\* C20: delete(name, path, domain) writes one cookie under `name` with an
\* empty value, max_age 0 and an expiry in the past, on the given path ('/'
\* when left out) and domain; after a set(name, v) it is the cookie written
\* last.
C20_Delete ==
  GotDelete =>
    /\ got[1].writes = 1
    /\ held # None
    /\ held[1].cookie.name = got[1].name
    /\ held[1].cookie.value = <<>>
    /\ held[1].cookie.max_age = Some(0)
    /\ held[1].cookie.expires # None
    /\ held[1].cookie.expires[1] < 0
    /\ held[1].cookie.path = (IF got[1].path = None THEN Some("/") ELSE got[1].path)
    /\ held[1].cookie.domain = got[1].domain

\* delete(name) with path and domain left out, right after set(name, v) with a
\* non-empty v
C20_Witness ==
  /\ GotDelete
  /\ got[1].path = None
  /\ got[1].domain = None
  /\ got[1].before # None
  /\ got[1].before[1].name = got[1].name
  /\ got[1].before[1].payload # <<>>
  /\ got[1].before[1].cookie.value # <<>>
  /\ held[1].cookie.value = <<>>
  /\ held[1].cookie.path = Some("/")

\* _time_independent_equals has returned or raised
EqualsDone == got # None /\ got[1].op = "equals" /\ got[1].pc = "done"

\* C21: on two basestrings _time_independent_equals returns what a == b
\* gives, whatever their lengths; when either operand is not a basestring it
\* raises ValueError.
C21_EqualsAsPython ==
  EqualsDone =>
    IF IsBasestring(got[1].a) /\ IsBasestring(got[1].b)
      THEN got[1].raised = "" /\ got[1].returned = PyEquals(got[1].a, got[1].b)
      ELSE got[1].raised = "ValueError"

\* C22: on two basestrings of equal length n the loop runs exactly n times,
\* one `result |= ord(x) ^ ord(y)` per position, before the function returns,
\* wherever and whether the two differ; what it saw is the OR over all n
\* positions.
C22_FullFold ==
  (EqualsDone /\ got[1].raised = "" /\ Len(got[1].a.text) = Len(got[1].b.text))
    => /\ got[1].steps = Len(got[1].a.text)
       /\ got[1].i = Len(got[1].a.text)
       /\ got[1].result = FoldXor(got[1].a.text, got[1].b.text)
       /\ got[1].returned = _time_independent_equals(got[1].a.text, got[1].b.text)

\* 'baaa' against 'aaaa': the first pair differs and all four are folded
C22_Witness ==
  /\ EqualsDone
  /\ got[1].a = PyValue("str", <<"b","a","a","a">>)
  /\ got[1].b = PyValue("str", <<"a","a","a","a">>)
  /\ got[1].steps = 4
  /\ ~got[1].returned

\* the dispatch ended in the bare `raise` of line 153
Reraised ==
  /\ GotCall
  /\ handler[1].throw_errors
  /\ got[1].invoked = 1
  /\ got[1].method_exc \notin {"", "HTTPException"}

\* the stages of a dispatch, in their order
StageOrder == <<"select_method", "xsrf_validate", "method", "normalise">>

\* s lists stages of StageOrder, each at most once, in that order
InStageOrder(s) ==
  \E pick \in SUBSET (1..Len(StageOrder)) :
    /\ Len(s) = Cardinality(pick)
    /\ \A i \in 1..Len(s) :
         s[i] = StageOrder[CHOOSE k \in pick : Cardinality({j \in pick : j < k}) = i - 1]

\* C23: a dispatch resolves the method, then runs the guard, then invokes the
\* method, then normalises: the method is invoked at most once and only when
\* the guard passed or was skipped; unless the dispatch re-raises under
\* paste.throw_errors, normalise is called exactly once, last, with the
\* method's return value or the 405, 403, 500 or HTTP exception response, and
\* __call__ returns what normalise returned.
C23_DispatchOrder ==
  GotCall =>
    /\ InStageOrder(got[1].stages)
    /\ got[1].stages[1] = "select_method"
    /\ got[1].invoked <= 1
    /\ got[1].invoked = 1 =>
         /\ got[1].method_name \in Exposed
         /\ got[1].guard_exc = ""
    /\ ~Reraised =>
         /\ got[1].raised = ""
         /\ got[1].normalised = 1
         /\ got[1].stages[Len(got[1].stages)] = "normalise"
         /\ got[1].handler_response =
              (IF got[1].method_name \notin Exposed
                 THEN ReturnedCallable(ExceptionResponse(405))
               ELSE IF got[1].guard_exc # ""
                 THEN ReturnedCallable(ExceptionResponse(403))
               ELSE IF got[1].method_exc = "HTTPException"
                 THEN ReturnedCallable(ExceptionResponse(404))
               ELSE IF got[1].method_exc # ""
                 THEN ReturnedCallable(ExceptionResponse(500))
               ELSE got[1].handler_response)
         /\ got[1].returned =
              (IF got[1].handler_response.type \in {"callable", "callable_str"}
                 THEN got[1].handler_response.obj
                 ELSE handler[1].response)

\* C24: in a dispatch whose method was found, xsrf_validate is called exactly
\* when both the handler's check_xsrf attribute and settings['check_xsrf'] are
\* true; when either is false it is not called, no XSRF cookie is read, and
\* the method is invoked, also for a POST without an `_xsrf` field.
C24_GuardFlags ==
  (GotCall /\ got[1].method_name \in Exposed) =>
    /\ got[1].guard_ran = 1
         <=> (handler[1].check_xsrf /\ handler[1].settings_check_xsrf)
    /\ ~(handler[1].check_xsrf /\ handler[1].settings_check_xsrf) =>
         /\ got[1].stages[2] = "method"
         /\ got[1].guard_exc = ""
         /\ got[1].invoked = 1

\* a non-XHR POST without `_xsrf`, the handler's attribute true and the
\* setting false: the method ran unguarded and its response was returned
C24_Witness ==
  /\ GotCall
  /\ got[1].method_name \in Exposed
  /\ Lower(handler[1].method) = Lower(POST)
  /\ ~handler[1].xhr
  /\ handler[1].param = None
  /\ handler[1].check_xsrf
  /\ ~handler[1].settings_check_xsrf
  /\ got[1].guard_ran = 0
  /\ got[1].invoked = 1
  /\ got[1].raised = ""

\* the dispatch of instance t run on its own
Alone(t) == Dispatch(t.alone, t.method_name, t.behaviour, t.fresh, cookie_secret, clock)

\* C25: dispatches on different handler instances, interleaved in any order,
\* each return the response and write the cookies they return and write when
\* run alone; the token an instance caches is the one its own dispatch gives
\* it, whatever the other instance cached.
C25_Independent ==
  \A i \in {1, 2} :
    instances[i] # None =>
      /\ instances[i][1].pc = "done" =>
           /\ instances[i][1].out[1].returned = Alone(instances[i][1]).returned
           /\ instances[i][1].out[1].wrote = Alone(instances[i][1]).wrote
           /\ instances[i][1].out[1].raised = Alone(instances[i][1]).raised
           /\ instances[i][1].out[1].sets = Alone(instances[i][1]).sets
      /\ instances[i][1].h.xsrf_token \in {None, Alone(instances[i][1]).cache}

\* two cookie-less requests whose dispatches overlapped: each instance
\* generated, cached and set its own token
C25_Witness ==
  /\ instances[1] # None
  /\ instances[2] # None
  /\ instances[1][1].pc = "done"
  /\ instances[2][1].pc = "done"
  /\ instances[1][1].interleaved
  /\ instances[2][1].interleaved
  /\ instances[1][1].h.xsrf_token = Some(FreshTokens[1])
  /\ instances[2][1].h.xsrf_token = Some(FreshTokens[2])
  /\ instances[1][1].out[1].wrote # None
  /\ instances[2][1].out[1].wrote # None

\* the first dispatch of a new handler for a non-XHR POST with an `_xsrf`
\* field, whose request carries, unchanged, the `_xsrf` cookie an earlier
\* handler set
PostWithIssuedCookie ==
  /\ GotCall
  /\ handler[1].calls = 1
  /\ got[1].before # None
  /\ got[1].before[1].name = XsrfName
  /\ handler[1].cookie = Some(got[1].before[1].cookie.value)
  /\ Lower(handler[1].method) = Lower(POST)
  /\ ~handler[1].xhr
  /\ handler[1].param # None

\* the field is the token of the cookie: the guard passes, the method runs, no
\* cookie is set; it is another value: the guard rejects the request
RoundTripHolds ==
  /\ handler[1].param = Some(got[1].before[1].payload) =>
       /\ got[1].guard_exc = ""
       /\ got[1].invoked = 1
       /\ got[1].sets = 0
  /\ handler[1].param # Some(got[1].before[1].payload) =>
       /\ got[1].guard_exc = "XSRFError"
       /\ got[1].invoked = 0

\* C26 (as stated): the token t a handler generated and set as the `_xsrf`
\* cookie validates a non-XHR POST to a new handler that carries the cookie
\* and the field `_xsrf` = t less than 31 days after the first request, with
\* no new cookie set; any other field value is rejected.
C26_TokenRoundTripWithin31DaysOfRequest ==
  (PostWithIssuedCookie /\ clock - got[1].before[1].at < WindowTicks)
    => RoundTripHolds

\* C26 (amended): the same, for a POST made no later than 31 days after the
\* whole second stamped on the cookie.
C26_TokenRoundTripWithin31DaysOfStamp ==
  (PostWithIssuedCookie
     /\ clock <= IntTime(got[1].before[1].at) * TicksPerSecond + WindowTicks)
    => RoundTripHolds

\* the form posted with the right token exactly 31 days after the stamp
C26_Witness ==
  /\ PostWithIssuedCookie
  /\ clock = IntTime(got[1].before[1].at) * TicksPerSecond + WindowTicks
  /\ handler[1].param = Some(got[1].before[1].payload)
  /\ got[1].guard_ran = 1
  /\ got[1].guard_exc = ""
  /\ got[1].sets = 0
  /\ got[1].raised = ""

\* C27: after every dispatch handler.response is still the object the
\* handler was constructed with; when the handler result is a callable, a
\* pre-built error response included, that result is returned and no field of
\* handler.response was written.
C27_ResponseNotRebound ==
  GotCall =>
    /\ handler[1].response.id = FreshResponse.id
    /\ (got[1].raised = ""
          /\ got[1].handler_response.type \in {"callable", "callable_str"}) =>
         /\ handler[1].response = got[1].response_before
         /\ got[1].returned = got[1].handler_response.obj

\* a second dispatch on a handler whose first dispatch wrote unicode_body: the
\* method raised an HTTP exception, whose response was returned, and the
\* handler's response kept what the first dispatch wrote
C27_Witness ==
  /\ GotCall
  /\ handler[1].calls = 2
  /\ got[1].method_exc = "HTTPException"
  /\ got[1].returned = ExceptionResponse(404)
  /\ got[1].response_before.unicode_body = "hello"
  /\ handler[1].response = got[1].response_before
  /\ handler[1].response.id = FreshResponse.id

=============================================================================
